---- MODULE Spec2Model ----
(***************************************************************************)
(* Model of data_load.py: the Evaluation record, the Corpus store, the     *)
(* sampling utility, the one-pass and the two-pass classification          *)
(* pipelines.                                                              *)
(*                                                                         *)
(* Python objects that can be shared live in two heaps: `dicts` holds the  *)
(* arguments_dict of every Corpus object (an insertion-ordered sequence of *)
(* key/list-reference entries), `lists` holds every list stored in such a  *)
(* dictionary.  A Corpus is the index of its dictionary in `dicts`.        *)
(* Optional integers (None or an int) are <<>> or <<n>>.                   *)
(***************************************************************************)
EXTENDS Integers, Sequences, FiniteSets, TLC

\* Largest number of rows of the input file.
MaxRows == 4

None == <<>>

Some(n) == <<n>>

Min(a, b) == IF a <= b THEN a ELSE b

Range(s) == {s[i] : i \in 1..Len(s)}

(***************************************************************************)
(* Text and int().                                                         *)
(***************************************************************************)
DecText == <<"0", "1", "2", "3", "4", "5", "6", "7", "8", "9">>

\* str(n) for the numbers the model writes into the file.
str(n) == DecText[n + 1]

\* The texts Python's int() accepts, among the texts of the model: decimal
\* digits, and "01" (int("01") is 1: int() is not the inverse of str()).
IntText == Range(DecText) \cup {"01"}

int(s) == IF s = "01" THEN 1 ELSE (CHOOSE n \in 0..9 : DecText[n + 1] = s)

\* int(s) raises ValueError for any other text.
IntRaises(s) == s \notin IntText

(***************************************************************************)
(* take_n_random_elements: the set of lists a call may return.             *)
(***************************************************************************)
\* random.sample(data, n): n elements at distinct positions, in any order.
random_sample(data, n) ==
    {[i \in 1..n |-> data[s[i]]] :
        s \in {f \in [1..n -> 1..Len(data)] :
                  \A i, j \in 1..n : i # j => f[i] # f[j]}}

take_n_all(data, n) == {data}

take_n_random_elements(data, n) ==
    IF n >= Len(data) THEN {data} ELSE random_sample(data, n)

(***************************************************************************)
(* Evaluation                                                              *)
(***************************************************************************)
FieldNames ==
    {"claim", "claim_premise", "aspect", "premise_validation", "coherence",
     "consistence", "persuasion", "emotional_ethic"}

PremiseFields ==
    {"premise_validation", "coherence", "consistence", "persuasion",
     "emotional_ethic"}

\* Whether Evaluation.__init__ raises ValueError on these column texts.
EvaluationRaises(r) ==
    \/ IntRaises(r.claim)
    \/ /\ r.claim = "1"
       /\ \/ IntRaises(r.claim_premise)
          \/ IntRaises(r.aspect)
          \/ /\ r.claim_premise = "1"
             /\ \E f \in PremiseFields : IntRaises(r[f])

EvaluationUngated(r) ==
    [f \in FieldNames |->
        IF f = "claim" THEN Some(int(r.claim))
        ELSE IF r.claim = "1" /\ ~IntRaises(r[f]) THEN Some(int(r[f])) ELSE None]

\* Evaluation.__init__, when it does not raise: the gates compare the TEXT
\* of the column with "1", the fields hold int() of the text.
Evaluation(r) ==
    [f \in FieldNames |->
        IF f = "claim" THEN Some(int(r.claim))
        ELSE IF f \in {"claim_premise", "aspect"}
             THEN (IF r.claim = "1" THEN Some(int(r[f])) ELSE None)
             ELSE (IF r.claim = "1" /\ r.claim_premise = "1"
                   THEN Some(int(r[f])) ELSE None)]

get_field(evaluation, field_name) == evaluation[field_name]

EvaluatedArgument(id_proposal, id_argument, argument, evaluation) ==
    [id_proposal |-> id_proposal, id_argument |-> id_argument,
     argument |-> argument, evaluation |-> evaluation]

(***************************************************************************)
(* Corpus.  h is the pair of heaps [dicts, lists]; c is a Corpus.          *)
(***************************************************************************)
Keys(d) == {d[i].k : i \in 1..Len(d)}

Lookup(d, key) == d[CHOOSE i \in 1..Len(d) : d[i].k = key].v

\* d[key] = ref: a new key goes last, an existing key keeps its place.
Store(d, key, ref) ==
    IF key \in Keys(d)
    THEN [i \in 1..Len(d) |-> IF d[i].k = key THEN [k |-> key, v |-> ref] ELSE d[i]]
    ELSE Append(d, [k |-> key, v |-> ref])

CorpusShared(h) ==
    IF h.dicts = <<>>
    THEN [h |-> [h EXCEPT !.dicts = Append(@, <<>>)], c |-> 1]
    ELSE [h |-> h, c |-> 1]

\* Corpus(): a new object with its own empty arguments_dict.
Corpus(h) ==
    [h |-> [h EXCEPT !.dicts = Append(@, <<>>)], c |-> Len(h.dicts) + 1]

\* The contents of a corpus: proposal id -> sequence of arguments.
Contents(h, c) ==
    [key \in Keys(h.dicts[c]) |-> h.lists[Lookup(h.dicts[c], key)]]

_append_argument(h, c, proposal_id, argument) ==
    IF proposal_id \in Keys(h.dicts[c])
    THEN [h EXCEPT !.lists[Lookup(h.dicts[c], proposal_id)] = Append(@, argument)]
    ELSE [dicts |-> [h.dicts EXCEPT ![c] = Store(@, argument.id_proposal, Len(h.lists) + 1)],
          lists |-> Append(h.lists, <<argument>>)]

RECURSIVE append_all_arguments(_, _, _, _)
append_all_arguments(h, c, proposal_id, arguments) ==
    IF arguments = <<>> THEN h
    ELSE append_all_arguments(_append_argument(h, c, proposal_id, Head(arguments)),
                              c, proposal_id, Tail(arguments))

\* values = [values] unless it is a list already.  A values argument is
\* [list |-> TRUE, l |-> a sequence of ints] or [list |-> FALSE, n |-> an int]
\* (with the other of l and n unused).
AsList(values) == IF values.list THEN values.l ELSE <<values.n>>

\* x in values, for an optional int x: None is in no list of ints.
InValues(x, values) == \E i \in 1..Len(values) : x = Some(values[i])

\* [argument for argument in arguments if get_field(field_name) in values]
Matching(arguments, field_name, values) ==
    SelectSeq(arguments,
              LAMBDA a : InValues(get_field(a.evaluation, field_name), values))

\* [argument for argument in arguments if get_field("claim_premise") != 1]
NonArguments(arguments) ==
    SelectSeq(arguments,
              LAMBDA a : get_field(a.evaluation, "claim_premise") # Some(1))

\* As filter_by_loop, but filtered_corpus.arguments_dict[proposal_id] is set
\* to the list of the matching arguments, also when none matches.
RECURSIVE filter_by_loop_assign(_, _, _, _, _, _)
filter_by_loop_assign(h, self, f, field_name, values, i) ==
    IF i > Len(h.dicts[self]) THEN h
    ELSE LET proposal_id == h.dicts[self][i].k
             arguments == Matching(h.lists[h.dicts[self][i].v], field_name, values)
         IN filter_by_loop_assign(
                [dicts |-> [h.dicts EXCEPT ![f] = Store(@, proposal_id, Len(h.lists) + 1)],
                 lists |-> Append(h.lists, arguments)],
                self, f, field_name, values, i + 1)

\* The loop of filter_by from the i-th key of self on; f is filtered_corpus.
RECURSIVE filter_by_loop(_, _, _, _, _, _)
filter_by_loop(h, self, f, field_name, values, i) ==
    IF i > Len(h.dicts[self]) THEN h
    ELSE LET proposal_id == h.dicts[self][i].k
             arguments == Matching(h.lists[h.dicts[self][i].v], field_name, values)
         IN filter_by_loop(append_all_arguments(h, f, proposal_id, arguments),
                           self, f, field_name, values, i + 1)

\* filter_by: the heaps after the call and the corpus returned.
filter_by(h, self, field_name, values) ==
    LET new == Corpus(h)
    IN {[h |-> filter_by_loop(new.h, self, new.c, field_name, AsList(values), 1),
         c |-> new.c]}

\* One iteration of the loop of filter_by_completed: the heaps it may leave.
filter_by_completed_body(h, self, f, field_name, values, i) ==
    LET proposal_id == h.dicts[self][i].k
        arguments == Matching(h.lists[h.dicts[self][i].v], field_name, values)
        number_filtered == Len(arguments)
        h1 == append_all_arguments(h, f, proposal_id, arguments)
        non_arguments == NonArguments(h1.lists[Lookup(h1.dicts[self], proposal_id)])
    IN {append_all_arguments(h1, f, proposal_id, sampled) :
           sampled \in take_n_random_elements(non_arguments, number_filtered)}

RECURSIVE filter_by_completed_loop(_, _, _, _, _, _)
filter_by_completed_loop(h, self, f, field_name, values, i) ==
    IF i > Len(h.dicts[self]) THEN {h}
    ELSE UNION {filter_by_completed_loop(h2, self, f, field_name, values, i + 1) :
                   h2 \in filter_by_completed_body(h, self, f, field_name, values, i)}

\* filter_by_completed: the (heaps, returned corpus) pairs a call may give.
filter_by_completed(h, self, field_name, values) ==
    LET new == Corpus(h)
    IN {[h |-> h2, c |-> new.c] :
           h2 \in filter_by_completed_loop(new.h, self, new.c, field_name,
                                           AsList(values), 1)}

(***************************************************************************)
(* The input file: the rows csv.DictReader yields, one record per row,     *)
(* every column a text.                                                    *)
(***************************************************************************)
EvalColumns(c, cp, a, p) ==
    [claim |-> c, claim_premise |-> cp, aspect |-> a, premise_validation |-> p,
     coherence |-> IF p = "" THEN "" ELSE "2", consistence |-> p,
     persuasion |-> IF p = "" THEN "" ELSE "3", emotional_ethic |-> IF p = "" THEN "" ELSE "0"]

\* The evaluations of the rows of the model: an argument related to the
\* aspect, an argument not related to it, a claim without premise related to
\* the aspect, no claim at all, and a claim whose next column is empty.
EvalKinds ==
    {EvalColumns("1", "1", "1", "1"), EvalColumns("1", "1", "0", "2"),
     EvalColumns("1", "0", "1", ""), EvalColumns("0", "", "", ""),
     EvalColumns("1", "", "", "")}

ProposalTexts == {"1", "2"}

\* The rows of the model, but for their "Id elemento" column.
RowKinds ==
    {[tipo_elemento |-> "Argumento", id_propuesta |-> p, valor |-> "text"] @@ e :
        p \in ProposalTexts, e \in EvalKinds}
    \cup {[tipo_elemento |-> "Propuesta", id_propuesta |-> "1", valor |-> "text"]
          @@ EvalColumns("", "", "", "")}

\* The n-th row of the file: its "Id elemento" is its row number.
NewRow(kind, n) == kind @@ [id_elemento |-> str(n)]

VARIABLES
    pc,                 \* where the program is
    fn,                 \* the one-pass function main calls
    file,               \* the rows of the input file
    pos,                \* the reader: the next row of the file
    proposal_id,        \* local of the running pipeline
    evaluated_data,     \* local of the one-pass pipelines
    non_evaluated_data, \* local of the one-pass pipelines
    data,               \* local of create_complete_corpus
    corpus,             \* local of the running pipeline: the Corpus it builds
    dicts,              \* heap: the arguments_dict of every Corpus
    lists,              \* heap: the lists held by the dictionaries
    opt_ret,            \* the Corpus the one-pass function returned, or 0
    receiver,           \* self of the last filter call, or 0
    result,             \* the Corpus the last filter call returned, or 0
    call,               \* the last filter call: its name and arguments
    before,             \* the contents of self when the last filter call began
    stage,              \* the number of filter calls chained so far
    cols,               \* the texts given to Evaluation.__init__
    evaluation          \* the Evaluation constructed: <<>> or <<e>>

vars ==
    <<pc, fn, file, pos, proposal_id, evaluated_data, non_evaluated_data, data,
      corpus, dicts, lists, opt_ret, receiver, result, call, before, stage, cols,
      evaluation>>

Heap == [dicts |-> dicts, lists |-> lists]

NoCall ==
    [kind |-> "none", field_name |-> "claim",
     values |-> [list |-> FALSE, n |-> 0, l |-> <<>>]]

OnePassFunctions ==
    {"classify_arguments_or_not_opt", "classify_arguments_or_not_with_aspect_opt"}

(***************************************************************************)
(* The one-pass pipelines.                                                 *)
(***************************************************************************)
\* The balancing at a proposal boundary and the two appends that commit the
\* group: the heaps they may leave.
Flush(h, c, id, evaluated, non_evaluated) ==
    LET eval_args_number == Len(evaluated)
        non_evaluated_args_number == Len(non_evaluated)
        balanced ==
            IF eval_args_number < non_evaluated_args_number
            THEN {<<evaluated, s>> :
                     s \in take_n_random_elements(non_evaluated, eval_args_number)}
            ELSE IF non_evaluated_args_number < eval_args_number
            THEN {<<s, non_evaluated>> :
                     s \in take_n_random_elements(evaluated, non_evaluated_args_number)}
            ELSE {<<evaluated, non_evaluated>>}
    IN {append_all_arguments(append_all_arguments(h, c, id, b[1]), c, id, b[2]) :
           b \in balanced}

\* The bucket a row goes to: "evaluated", "non_evaluated" or "none".
Bucket(f, row) ==
    IF f = "classify_arguments_or_not_opt"
    THEN (IF row.claim_premise = "1" THEN "evaluated" ELSE "non_evaluated")
    ELSE (IF row.claim_premise = "1" /\ row.aspect = "1" THEN "evaluated"
          ELSE IF row.claim_premise # "1" THEN "non_evaluated"
          ELSE "none")

\* One iteration of the loop of a one-pass pipeline, on the row just read.
OptBody(row) ==
    IF row.tipo_elemento # "Argumento"
    THEN UNCHANGED <<pc, proposal_id, evaluated_data, non_evaluated_data, dicts, lists>>
    ELSE LET boundary == int(row.id_propuesta) # proposal_id
             id == int(row.id_propuesta)
             ev == IF boundary THEN <<>> ELSE evaluated_data
             nev == IF boundary THEN <<>> ELSE non_evaluated_data
         IN /\ \E h \in (IF boundary /\ proposal_id # -1
                         THEN Flush(Heap, corpus, proposal_id, evaluated_data,
                                    non_evaluated_data)
                         ELSE {Heap}) :
                  /\ dicts' = h.dicts
                  /\ lists' = h.lists
            /\ proposal_id' = id
            /\ IF EvaluationRaises(row)
               THEN /\ pc' = "raised"
                    /\ evaluated_data' = ev
                    /\ non_evaluated_data' = nev
               ELSE LET evaluated_argument ==
                            EvaluatedArgument(id, int(row.id_elemento), row.valor,
                                              Evaluation(row))
                    IN /\ pc' = pc
                       /\ evaluated_data' =
                              IF Bucket(fn, row) = "evaluated"
                              THEN Append(ev, evaluated_argument) ELSE ev
                       /\ non_evaluated_data' =
                              IF Bucket(fn, row) = "non_evaluated"
                              THEN Append(nev, evaluated_argument) ELSE nev

\* The reader yields a row of the file for the first time.
OptRow ==
    /\ pc = "opt_loop"
    /\ Len(file) < MaxRows
    /\ \E kind \in RowKinds :
          LET row == NewRow(kind, Len(file) + 1)
          IN /\ file' = Append(file, row)
             /\ pos' = pos + 1
             /\ OptBody(row)
    /\ UNCHANGED <<fn, data, corpus, opt_ret, receiver, result, call, before, stage,
                   cols, evaluation>>

\* The reader is exhausted: return corpus.
OptReturn ==
    /\ pc = "opt_loop"
    /\ pc' = "opt_returned"
    /\ opt_ret' = corpus
    /\ UNCHANGED <<fn, file, pos, proposal_id, evaluated_data, non_evaluated_data,
                   data, corpus, dicts, lists, receiver, result, call, before, stage,
                   cols, evaluation>>

(***************************************************************************)
(* create_complete_corpus                                                  *)
(***************************************************************************)
\* text != n for a str and an int: Python never finds them equal.
StrNeInt(text, n) == TRUE

\* One iteration of the loop of create_complete_corpus, on the row read.
CccBody(row) ==
    IF row.tipo_elemento # "Argumento"
    THEN UNCHANGED <<pc, proposal_id, data, dicts, lists>>
    ELSE LET boundary == StrNeInt(row.id_propuesta, proposal_id)
             h == IF boundary /\ proposal_id # -1
                  THEN append_all_arguments(Heap, corpus, proposal_id, data)
                  ELSE Heap
             id == IF boundary THEN int(row.id_propuesta) ELSE proposal_id
             d == IF boundary THEN <<>> ELSE data
         IN /\ dicts' = h.dicts
            /\ lists' = h.lists
            /\ proposal_id' = id
            /\ IF EvaluationRaises(row)
               THEN /\ pc' = "raised"
                    /\ data' = d
               ELSE /\ pc' = pc
                    /\ data' = Append(d, EvaluatedArgument(id, int(row.id_elemento),
                                                           row.valor, Evaluation(row)))

\* main calls the two-pass counterpart of the one-pass function, which
\* calls create_complete_corpus: the file is opened again.
CallCreateCompleteCorpus ==
    /\ pc = "opt_returned"
    /\ pc' = "ccc_loop"
    /\ LET new == Corpus(Heap)
       IN /\ dicts' = new.h.dicts
          /\ lists' = new.h.lists
          /\ corpus' = new.c
    /\ pos' = 1
    /\ proposal_id' = -1
    /\ data' = <<>>
    /\ UNCHANGED <<fn, file, evaluated_data, non_evaluated_data, opt_ret, receiver,
                   result, call, before, stage, cols, evaluation>>

\* The reader yields the next row of a file read before.
CccReread ==
    /\ pc = "ccc_loop"
    /\ pos <= Len(file)
    /\ pos' = pos + 1
    /\ CccBody(file[pos])
    /\ UNCHANGED <<fn, file, evaluated_data, non_evaluated_data, corpus, opt_ret,
                   receiver, result, call, before, stage, cols, evaluation>>

\* The reader yields a row of the file for the first time.
CccRow ==
    /\ pc = "ccc_loop"
    /\ pos = Len(file) + 1
    /\ Len(file) < MaxRows
    /\ \E kind \in RowKinds :
          LET row == NewRow(kind, Len(file) + 1)
          IN /\ file' = Append(file, row)
             /\ pos' = pos + 1
             /\ CccBody(row)
    /\ UNCHANGED <<fn, evaluated_data, non_evaluated_data, corpus, opt_ret, receiver,
                   result, call, before, stage, cols, evaluation>>

\* The reader is exhausted: return corpus.
CccReturn ==
    /\ pc = "ccc_loop"
    /\ pos > Len(file)
    /\ pc' = "ccc_returned"
    /\ UNCHANGED <<fn, file, pos, proposal_id, evaluated_data, non_evaluated_data,
                   data, corpus, dicts, lists, opt_ret, receiver, result, call, before,
                   stage, cols, evaluation>>

(***************************************************************************)
(* Calls of filter_by and filter_by_completed.                             *)
(***************************************************************************)
Scalar(n) == [list |-> FALSE, n |-> n, l |-> <<>>]

List(l) == [list |-> TRUE, n |-> 0, l |-> l]

\* A call kind(self, field_name, values), the result of which becomes
\* `result`; self is the complete corpus, or the result of the call before
\* when calls are chained.
FilterCall(kind, field_name, values) ==
    LET self == IF stage = 0 THEN corpus ELSE result
    IN /\ \E out \in (IF kind = "filter_by"
                      THEN filter_by(Heap, self, field_name, values)
                      ELSE filter_by_completed(Heap, self, field_name, values)) :
             /\ dicts' = out.h.dicts
             /\ lists' = out.h.lists
             /\ result' = out.c
       /\ receiver' = self
       /\ before' = Contents(Heap, self)
       /\ call' = [kind |-> kind, field_name |-> field_name, values |-> values]
       /\ stage' = stage + 1
       /\ pc' = "filtered"
       /\ UNCHANGED <<fn, file, pos, proposal_id, evaluated_data, non_evaluated_data,
                      data, corpus, opt_ret, cols, evaluation>>

\* classify_arguments_or_not and the first call of
\* classify_arguments_or_not_with_aspect.
ClassifyFilter ==
    /\ pc = "ccc_returned"
    /\ FilterCall("filter_by_completed", "claim_premise", Scalar(1))

\* The chained call of classify_arguments_or_not_with_aspect.
ClassifyAspectFilter ==
    /\ pc = "filtered"
    /\ stage = 1
    /\ fn = "classify_arguments_or_not_with_aspect_opt"
    /\ FilterCall("filter_by_completed", "aspect", Scalar(1))

\* The two-pass function returns filtered_corpus.
ClassifyReturn ==
    /\ pc = "filtered"
    /\ stage = (IF fn = "classify_arguments_or_not_opt" THEN 1 ELSE 2)
    /\ pc' = "done"
    /\ UNCHANGED <<fn, file, pos, proposal_id, evaluated_data, non_evaluated_data,
                   data, corpus, dicts, lists, opt_ret, receiver, result, call, before,
                   stage, cols, evaluation>>

FilterKinds == {"filter_by", "filter_by_completed"}

\* The (field_name, values) arguments of the filter calls of the program.
FilterArgs ==
    {<<"claim_premise", Scalar(1)>>, <<"aspect", Scalar(1)>>,
     <<"premise_validation", Scalar(1)>>, <<"coherence", List(<<1, 2>>)>>}

\* A call of either filter on the complete corpus.
AnyFilter ==
    /\ pc = "ccc_returned"
    /\ \E kind \in FilterKinds, args \in FilterArgs :
          FilterCall(kind, args[1], args[2])

\* A later append to the corpus a filter returned: of the first argument of
\* a proposal of the receiver, under that proposal.
AppendLater ==
    /\ pc = "filtered"
    /\ pc' = "appended"
    /\ \E key \in DOMAIN before :
          LET h == append_all_arguments(Heap, result, key, <<before[key][1]>>)
          IN /\ dicts' = h.dicts
             /\ lists' = h.lists
    /\ UNCHANGED <<fn, file, pos, proposal_id, evaluated_data, non_evaluated_data,
                   data, corpus, opt_ret, receiver, result, call, before, stage, cols,
                   evaluation>>

(***************************************************************************)
(* Construction of one Evaluation.                                         *)
(***************************************************************************)
ClaimTexts == {"1", "0", "01", "x"}

ClaimPremiseTexts == {"1", "0", "01", "2", ""}

AspectTexts == {"1", "0", ""}

ScaleTexts == {"1", "3", ""}

EvaluationArgs ==
    [claim : ClaimTexts, claim_premise : ClaimPremiseTexts, aspect : AspectTexts,
     premise_validation : ScaleTexts, coherence : ScaleTexts,
     consistence : ScaleTexts, persuasion : ScaleTexts, emotional_ethic : ScaleTexts]

Construct ==
    /\ pc = "eval_call"
    /\ ~EvaluationRaises(cols)
    /\ pc' = "constructed"
    /\ evaluation' = <<Evaluation(cols)>>
    /\ UNCHANGED <<fn, file, pos, proposal_id, evaluated_data, non_evaluated_data,
                   data, corpus, dicts, lists, opt_ret, receiver, result, call, before,
                   stage, cols>>

ConstructRaises ==
    /\ pc = "eval_call"
    /\ EvaluationRaises(cols)
    /\ pc' = "raised"
    /\ UNCHANGED <<fn, file, pos, proposal_id, evaluated_data, non_evaluated_data,
                   data, corpus, dicts, lists, opt_ret, receiver, result, call, before,
                   stage, cols, evaluation>>

(***************************************************************************)
(* Specifications.                                                         *)
(***************************************************************************)
NoHeap == [dicts |-> <<>>, lists |-> <<>>]

InitLocals ==
    /\ file = <<>>
    /\ pos = 1
    /\ proposal_id = -1
    /\ evaluated_data = <<>>
    /\ non_evaluated_data = <<>>
    /\ data = <<>>
    /\ opt_ret = 0
    /\ receiver = 0
    /\ result = 0
    /\ call = NoCall
    /\ before = <<>>
    /\ stage = 0
    /\ evaluation = <<>>

\* main: a one-pass function, then its two-pass counterpart on the same file.
Init ==
    /\ pc = "opt_loop"
    /\ fn \in OnePassFunctions
    /\ LET new == Corpus(NoHeap)
       IN dicts = new.h.dicts /\ lists = new.h.lists /\ corpus = new.c
    /\ cols = EvalColumns("", "", "", "")
    /\ InitLocals

Next ==
    \/ OptRow
    \/ OptReturn
    \/ CallCreateCompleteCorpus
    \/ CccReread
    \/ CccReturn
    \/ ClassifyFilter
    \/ ClassifyAspectFilter
    \/ ClassifyReturn

Spec == Init /\ [][Next]_vars

\* create_complete_corpus on any file, then any filter call on its result
\* and a later append to what the filter returned.
InitFilter ==
    /\ pc = "ccc_loop"
    /\ fn = "create_complete_corpus"
    /\ LET new == Corpus(NoHeap)
       IN dicts = new.h.dicts /\ lists = new.h.lists /\ corpus = new.c
    /\ cols = EvalColumns("", "", "", "")
    /\ InitLocals

NextFilter ==
    \/ CccRow
    \/ CccReturn
    \/ AnyFilter
    \/ AppendLater

SpecFilter == InitFilter /\ [][NextFilter]_vars

\* Evaluation.__init__ on any texts.
InitEval ==
    /\ pc = "eval_call"
    /\ fn = "Evaluation"
    /\ dicts = <<>>
    /\ lists = <<>>
    /\ corpus = 0
    /\ cols \in EvaluationArgs
    /\ InitLocals

NextEval ==
    \/ Construct
    \/ ConstructRaises

SpecEval == InitEval /\ [][NextEval]_vars

(***************************************************************************)
(* What the properties speak of.                                           *)
(***************************************************************************)
IsArgumentRow(row) == row.tipo_elemento = "Argumento"

\* The rows of the file tagged as arguments, in file order.
ArgumentRows == SelectSeq(file, IsArgumentRow)

ProposalOf(row) == int(row.id_propuesta)

ProposalsOfFile == {ProposalOf(ArgumentRows[i]) : i \in 1..Len(ArgumentRows)}

\* A positive record of the running one-pass function, and a negative one.
IsPositive(row) ==
    /\ row.claim_premise = "1"
    /\ fn = "classify_arguments_or_not_with_aspect_opt" => row.aspect = "1"

IsNegative(row) == row.claim_premise # "1"

CountIn(rows, from, to, Test(_)) ==
    Cardinality({i \in from..to : Test(rows[i])})

\* The arguments a corpus holds for a proposal: none when the id is no key.
ArgumentsOf(contents, id) ==
    IF id \in DOMAIN contents THEN contents[id] ELSE <<>>

\* The argument rows are grouped contiguously by proposal id.
Contiguous ==
    \A i, j, k \in 1..Len(ArgumentRows) :
        (i < j /\ j < k /\ ProposalOf(ArgumentRows[i]) = ProposalOf(ArgumentRows[k]))
            => ProposalOf(ArgumentRows[j]) = ProposalOf(ArgumentRows[i])

\* The first rows of the maximal runs of one proposal id.
RunStarts ==
    {i \in 1..Len(ArgumentRows) :
        i = 1 \/ ProposalOf(ArgumentRows[i]) # ProposalOf(ArgumentRows[i - 1])}

RunEnd(start) ==
    CHOOSE e \in start..Len(ArgumentRows) :
        /\ \A i \in start..e : ProposalOf(ArgumentRows[i]) = ProposalOf(ArgumentRows[start])
        /\ e = Len(ArgumentRows) \/ ProposalOf(ArgumentRows[e + 1]) # ProposalOf(ArgumentRows[start])

\* 2 * min(p, q) of the run that starts at a row.
BalancedSize(start) ==
    2 * Min(CountIn(ArgumentRows, start, RunEnd(start), IsPositive),
            CountIn(ArgumentRows, start, RunEnd(start), IsNegative))

RECURSIVE SumBalanced(_)
SumBalanced(starts) ==
    IF starts = {} THEN 0
    ELSE LET s == CHOOSE x \in starts : TRUE
         IN BalancedSize(s) + SumBalanced(starts \ {s})

NoDuplicates(contents) ==
    \A id \in DOMAIN contents :
        \A i, j \in 1..Len(contents[id]) : i # j => contents[id][i] # contents[id][j]

\* The values a filter call asks for, and whether an argument matches.
ValuesAsked == IF call.values.list THEN Range(call.values.l) ELSE {call.values.n}

IsMatch(a) == \E v \in ValuesAsked : a.evaluation[call.field_name] = <<v>>

IsNonArgument(a) == a.evaluation.claim_premise # <<1>>

(***************************************************************************)
(* One-pass pipelines.                                                     *)
(***************************************************************************)
\* C1: when a one-pass pipeline returns, the group that was active when the
\* last record was read has been balanced and committed: 2 * min of its two
\* buckets' sizes of its records are in the returned corpus.
ActiveGroupFlushed ==
    (pc = "opt_returned" /\ proposal_id # -1) =>
        LET kept == ArgumentsOf(Contents(Heap, opt_ret), proposal_id)
            group == Range(evaluated_data) \cup Range(non_evaluated_data)
        IN Cardinality(group \cap Range(kept))
               = 2 * Min(Len(evaluated_data), Len(non_evaluated_data))

\* C2: for a file grouped contiguously by proposal id, the returned corpus
\* holds exactly 2 * min(p, q) arguments for every proposal of the file.
OnePassBalancedCount ==
    (pc = "opt_returned" /\ Contiguous) =>
        \A id \in ProposalsOfFile :
            Len(ArgumentsOf(Contents(Heap, opt_ret), id))
                = 2 * Min(CountIn(ArgumentRows, 1, Len(ArgumentRows),
                                  LAMBDA r : ProposalOf(r) = id /\ IsPositive(r)),
                          CountIn(ArgumentRows, 1, Len(ArgumentRows),
                                  LAMBDA r : ProposalOf(r) = id /\ IsNegative(r)))

\* C9: grouping is positional: a proposal whose id reappears after another
\* id contributes to the returned corpus the sum, over its maximal
\* contiguous runs, of 2 * min(p_i, q_i).
PositionalGrouping ==
    pc = "opt_returned" =>
        \A id \in ProposalsOfFile :
            LET runs == {s \in RunStarts : ProposalOf(ArgumentRows[s]) = id}
            IN Cardinality(runs) > 1 =>
                   Len(ArgumentsOf(Contents(Heap, opt_ret), id)) = SumBalanced(runs)

(***************************************************************************)
(* Two-pass pipelines.                                                     *)
(***************************************************************************)
\* C4: the complete corpus holds every argument record of the file, once,
\* under its own proposal id and in file order.
CompleteCorpusIsComplete ==
    pc = "ccc_returned" =>
        Contents(Heap, corpus)
            = [id \in ProposalsOfFile |->
                  LET rows == SelectSeq(ArgumentRows, LAMBDA r : ProposalOf(r) = id)
                  IN [i \in 1..Len(rows) |->
                         EvaluatedArgument(id, int(rows[i].id_elemento), rows[i].valor,
                                           Evaluation(rows[i]))]]

\* C5: the two-pass function returns a corpus with the proposal ids of the
\* corpus its one-pass counterpart returned and, for each of them, as many
\* positive and as many negative arguments.
TwoPassSameAsOnePass ==
    pc = "done" =>
        LET one == Contents(Heap, opt_ret)
            two == Contents(Heap, result)
        IN /\ DOMAIN one = DOMAIN two
           /\ \A id \in DOMAIN one \cap DOMAIN two :
                 /\ Len(SelectSeq(one[id], IsNonArgument))
                        = Len(SelectSeq(two[id], IsNonArgument))
                 /\ Len(one[id]) = Len(two[id])

\* C10: filter_by_completed on a corpus that holds no argument twice within
\* a proposal returns a corpus that holds no argument twice within a proposal.
CompletedHasNoDuplicates ==
    (pc \in {"filtered", "done"} /\ call.kind = "filter_by_completed"
        /\ NoDuplicates(before))
        => NoDuplicates(Contents(Heap, result))

(***************************************************************************)
(* The filters.                                                            *)
(***************************************************************************)
\* C3: filter_by_completed returns, for every proposal of the receiver with
\* p matching arguments and q non-arguments, the p matches in order followed
\* by min(p, q) non-arguments of the proposal, each drawn at most once; a
\* proposal with nothing to return is no key, and no other key appears.
CompletedCount ==
    (pc = "filtered" /\ call.kind = "filter_by_completed") =>
        LET got == Contents(Heap, result)
        IN /\ DOMAIN got \subseteq DOMAIN before
           /\ \A id \in DOMAIN before :
                 LET matches == SelectSeq(before[id], IsMatch)
                     non == SelectSeq(before[id], IsNonArgument)
                     p == Len(matches)
                     q == Len(non)
                     r == ArgumentsOf(got, id)
                 IN /\ Len(r) = p + Min(p, q)
                    /\ SubSeq(r, 1, p) = matches
                    /\ \A i \in (p + 1)..Len(r) : r[i] \in Range(non)
                    /\ \A i, j \in (p + 1)..Len(r) : i # j => r[i] # r[j]
                    /\ id \in DOMAIN got <=> p > 0

\* C3 witness: a call that had to sample: fewer matches than non-arguments.
CompletedSampled ==
    /\ pc = "filtered"
    /\ call.kind = "filter_by_completed"
    /\ \E id \in DOMAIN before :
          /\ Len(SelectSeq(before[id], IsMatch)) >= 1
          /\ Len(SelectSeq(before[id], IsNonArgument))
                 > Len(SelectSeq(before[id], IsMatch))

\* C6: filter_by returns exactly the proposals of the receiver with at least
\* one matching argument, each with its matching arguments in their order.
FilterByExact ==
    (pc = "filtered" /\ call.kind = "filter_by") =>
        Contents(Heap, result)
            = [id \in {k \in DOMAIN before : \E i \in 1..Len(before[k]) : IsMatch(before[k][i])}
                  |-> SelectSeq(before[id], IsMatch)]

\* C6 witness: one proposal without a match, another with two matches and
\* an argument that does not match.
FilterByDropsAndKeeps ==
    /\ pc = "filtered"
    /\ call.kind = "filter_by"
    /\ \E id \in DOMAIN before : Len(SelectSeq(before[id], IsMatch)) = 0
    /\ \E id \in DOMAIN before :
          /\ Len(SelectSeq(before[id], IsMatch)) >= 1
          /\ Len(SelectSeq(before[id], IsMatch)) < Len(before[id])

\* C7: after a filter call, and after a later append to the corpus it
\* returned, the receiver holds what it held when the call began.
ReceiverUnchanged ==
    pc \in {"filtered", "appended"} => Contents(Heap, receiver) = before

\* C7 witness: an append to a returned corpus that holds a proposal of the
\* receiver, all of whose arguments matched.
AppendedToReturned ==
    /\ pc = "appended"
    /\ \E id \in DOMAIN before \cap DOMAIN Contents(Heap, result) :
          /\ Len(SelectSeq(before[id], IsMatch)) = Len(before[id])
          /\ Len(Contents(Heap, result)[id]) > Len(before[id])

(***************************************************************************)
(* Evaluation.                                                             *)
(***************************************************************************)
\* C8: an Evaluation that was constructed has no claim_premise and no aspect
\* unless its claim is 1, and none of the five premise-dependent fields
\* unless its claim_premise is 1.
GatingInvariant ==
    pc = "constructed" =>
        LET e == evaluation[1]
        IN /\ e.claim # Some(1) => (e.claim_premise = None /\ e.aspect = None)
           /\ e.claim_premise # Some(1) => \A f \in PremiseFields : e[f] = None

\* C8 witness: constructed from a claim with a claim_premise other than 1 and
\* texts in the premise-dependent columns.
GatedFieldsGiven ==
    /\ pc = "constructed"
    /\ cols.claim = "1"
    /\ cols.claim_premise = "0"
    /\ \A f \in PremiseFields : cols[f] = "3"

====
